---- MODULE Spec2Model ----
(***************************************************************************)
(* Model of pkg/crypto/password_hash.go: Argon2id password hashing.       *)
(*                                                                         *)
(* A Go string / []byte of text is a sequence of one-character strings;   *)
(* a []byte of binary data (password, salt, digest) is a sequence of      *)
(* numbers in 0..255.  Formatting (fmt.Sprintf), scanning (fmt.Sscanf),   *)
(* strings.Split and base64.StdEncoding are modelled by what they do.     *)
(* argon2.IDKey is a library function: it is modelled as a deterministic, *)
(* collision-free function of all six arguments (on the bounded domain of *)
(* the model) that panics on the arguments the library panics on.         *)
(***************************************************************************)
EXTENDS Integers, Sequences, FiniteSets, TLC

VARIABLES
    DefaultArgon2IDHash,  \* the package-level parameter set (a Go var)
    gen,                  \* the last GenerateHash call: inputs and outcome
    ver,                  \* the last VerifyHash call on the current record
    pc,                   \* concurrent model: position of each goroutine
    loc                   \* concurrent model: locals of each goroutine

vars == <<DefaultArgon2IDHash, gen, ver, pc, loc>>

\* ------------------------------------------------------------------ bounds

MaxPwdLen == 1
MaxSaltLen == 2
NumProcs == 2

\* ------------------------------------------------------- program constants

Argon2Version == 19
ExpectedFields == 6

Nil == "nil"
ErrInvalidSaltLength == "ErrInvalidSaltLength"
ErrInvalidEncodedHash == "ErrInvalidEncodedHash"
ErrIncompatibleArgon2Version == "ErrIncompatibleArgon2Version"
ErrScan == "fmt: scan error"
ErrCorruptInput == "base64.CorruptInputError"
ErrRandRead == "rand.Read error"

\* The digits of the largest uint32, 4294967295 (a.Memory, a.Time).
Uint32MaxDigits == <<4, 2, 9, 4, 9, 6, 7, 2, 9, 5>>
\* The digits of the largest uint8, 255 (a.Threads).
Uint8MaxDigits == <<2, 5, 5>>
\* The digits of the largest int64 (the version is scanned into an int).
Int64MaxDigits == <<9, 2, 2, 3, 3, 7, 2, 0, 3, 6, 8, 5, 4, 7, 7, 5, 8, 0, 7>>

\* --------------------------------------------------------------- text

DecimalDigits == <<"0", "1", "2", "3", "4", "5", "6", "7", "8", "9">>

IsDigit(c) == \E i \in 1..10 : DecimalDigits[i] = c

DigitValue(c) == (CHOOSE i \in 1..10 : DecimalDigits[i] = c) - 1

IsSpace(c) == c \in {" ", "\t"}

Drop(s, n) == SubSeq(s, n + 1, Len(s))

\* %d of fmt.Sprintf for a non-negative integer: decimal, no leading zeros.
RECURSIVE FormatInt(_)
FormatInt(n) ==
    IF n < 10 THEN <<DecimalDigits[n + 1]>>
    ELSE FormatInt(n \div 10) \o <<DecimalDigits[(n % 10) + 1]>>

\* strings.Split(s, sep) for a one-character separator.
RECURSIVE Split(_, _)
Split(s, sep) ==
    IF \A i \in 1..Len(s) : s[i] # sep THEN <<s>>
    ELSE LET k == CHOOSE i \in 1..Len(s) :
                      s[i] = sep /\ \A j \in 1..(i - 1) : s[j] # sep
         IN  <<SubSeq(s, 1, k - 1)>> \o Split(Drop(s, k), sep)

\* The number of decimal digits at the start of s.
DigitCount(s) ==
    CHOOSE k \in 0..Len(s) :
        /\ \A i \in 1..k : IsDigit(s[i])
        /\ k = Len(s) \/ ~IsDigit(s[k + 1])

\* The longest prefix of s made of decimal digits.
DigitPrefix(s) == SubSeq(s, 1, DigitCount(s))

\* The number of blanks at the start of s.
SpaceCount(s) ==
    CHOOSE k \in 0..Len(s) :
        /\ \A i \in 1..k : IsSpace(s[i])
        /\ k = Len(s) \/ ~IsSpace(s[k + 1])

SkipSpace(s) == Drop(s, SpaceCount(s))

RECURSIVE StripZeros(_)
StripZeros(s) == IF Len(s) > 1 /\ s[1] = "0" THEN StripZeros(Tail(s)) ELSE s

\* Does the decimal token tok name a number larger than the one whose digits
\* are maxDigits?  (Decided on the digits: the value may not fit a machine word.)
RECURSIVE DigitsGreater(_, _)
DigitsGreater(tok, maxDigits) ==
    IF Len(tok) = 0 THEN FALSE
    ELSE IF DigitValue(tok[1]) # maxDigits[1]
         THEN DigitValue(tok[1]) > maxDigits[1]
         ELSE DigitsGreater(Tail(tok), Tail(maxDigits))

OverflowsStripped(t, maxDigits) ==
    \/ Len(t) > Len(maxDigits)
    \/ Len(t) = Len(maxDigits) /\ DigitsGreater(t, maxDigits)

Overflows(tok, maxDigits) == OverflowsStripped(StripZeros(tok), maxDigits)

RECURSIVE DecimalValue(_)
DecimalValue(tok) ==
    IF Len(tok) = 0 THEN 0
    ELSE DecimalValue(SubSeq(tok, 1, Len(tok) - 1)) * 10 + DigitValue(tok[Len(tok)])

ScanFail == [ok |-> FALSE, val |-> 0, rest |-> <<>>]

\* A literal piece of a Sscanf format: the input must start with it.
ScanLiteral(input, lit) ==
    IF Len(input) >= Len(lit) /\ SubSeq(input, 1, Len(lit)) = lit
    THEN [ok |-> TRUE, val |-> 0, rest |-> Drop(input, Len(lit))]
    ELSE ScanFail

\* The number whose digits tok start the input s, with its sign: at least one
\* digit is needed and the value must fit the type.
ScanToken(s, tok, maxDigits, sign) ==
    IF Len(tok) = 0 \/ Overflows(tok, maxDigits) THEN ScanFail
    ELSE [ok |-> TRUE, val |-> sign * DecimalValue(tok), rest |-> Drop(s, Len(tok))]

ScanDigits(s, maxDigits, sign) == ScanToken(s, DigitPrefix(s), maxDigits, sign)

\* %d of fmt.Sscanf into an unsigned integer: leading blanks are skipped and no
\* sign is accepted.
ScanUint(input, maxDigits) == ScanDigits(SkipSpace(input), maxDigits, 1)

HasSign(s) == Len(s) > 0 /\ s[1] \in {"+", "-"}

ScanSigned(s, maxDigits) ==
    ScanDigits(IF HasSign(s) THEN Tail(s) ELSE s, maxDigits,
               IF HasSign(s) /\ s[1] = "-" THEN -1 ELSE 1)

\* %d of fmt.Sscanf into an int: as ScanUint, after an optional sign.
ScanInt(input, maxDigits) == ScanSigned(SkipSpace(input), maxDigits)

\* The next literal piece of the format after a verb, if the verb was scanned.
ScanLiteralAfter(prev, lit) ==
    IF prev.ok THEN ScanLiteral(prev.rest, lit) ELSE ScanFail

\* The next %d of the format after a literal piece, if the piece matched.
ScanUintAfter(prev, maxDigits) ==
    IF prev.ok THEN ScanUint(prev.rest, maxDigits) ELSE ScanFail

ScanIntAfter(prev, maxDigits) ==
    IF prev.ok THEN ScanInt(prev.rest, maxDigits) ELSE ScanFail

\* ------------------------------------------------------------- base64

Base64Alphabet ==
    <<"A", "B", "C", "D", "E", "F", "G", "H", "I", "J", "K", "L", "M",
      "N", "O", "P", "Q", "R", "S", "T", "U", "V", "W", "X", "Y", "Z",
      "a", "b", "c", "d", "e", "f", "g", "h", "i", "j", "k", "l", "m",
      "n", "o", "p", "q", "r", "s", "t", "u", "v", "w", "x", "y", "z",
      "0", "1", "2", "3", "4", "5", "6", "7", "8", "9", "+", "/">>

PadChar == "="

IsBase64Char(c) == \E i \in 1..64 : Base64Alphabet[i] = c

Base64Value(c) == (CHOOSE i \in 1..64 : Base64Alphabet[i] = c) - 1

Base64Char(v) == Base64Alphabet[v + 1]

\* The byte at index i of b, and 0 past its end (the bits that pad a short
\* final group).
ByteAt(b, i) == IF i <= Len(b) THEN b[i] ELSE 0

\* Character k (0..3) of the group that encodes the three bytes from index g.
EncodeChar(b, g, k) ==
    IF k = 0 THEN Base64Char(ByteAt(b, g) \div 4)
    ELSE IF k = 1 THEN Base64Char((ByteAt(b, g) % 4) * 16 + ByteAt(b, g + 1) \div 16)
    ELSE IF k = 2 THEN
        IF g + 1 > Len(b) THEN PadChar
        ELSE Base64Char((ByteAt(b, g + 1) % 16) * 4 + ByteAt(b, g + 2) \div 64)
    ELSE IF g + 2 > Len(b) THEN PadChar
         ELSE Base64Char(ByteAt(b, g + 2) % 64)

\* base64.StdEncoding.EncodeToString: four characters for every three bytes,
\* the last group padded.
EncodeGroups(b) ==
    [j \in 1..(4 * ((Len(b) + 2) \div 3)) |->
        EncodeChar(b, 3 * ((j - 1) \div 4) + 1, (j - 1) % 4)]

\* base64.RawStdEncoding.EncodeToString: the same characters, no padding.
EncodeToString_raw(b) ==
    SubSeq(EncodeGroups(b), 1, (4 * Len(b) + 2) \div 3)

\* base64.StdEncoding.EncodeToString
EncodeToString(b) == EncodeGroups(b)

NotNewline(c) == c \notin {"\n", "\r"}

\* The decoder ignores carriage returns and line feeds.
StripNewlines(s) == SelectSeq(s, NotNewline)

DecodeFail == [err |-> ErrCorruptInput, bytes |-> <<>>]

\* The number of padding characters that end s: at most two.
PadCount(s) ==
    IF Len(s) >= 1 /\ s[Len(s)] = PadChar
    THEN IF Len(s) >= 2 /\ s[Len(s) - 1] = PadChar THEN 2 ELSE 1
    ELSE 0

\* Byte r (0..2) of the quantum whose four characters start at index q.
DecodeByte(s, q, r) ==
    IF r = 0 THEN Base64Value(s[q]) * 4 + Base64Value(s[q + 1]) \div 16
    ELSE IF r = 1 THEN (Base64Value(s[q + 1]) % 16) * 16 + Base64Value(s[q + 2]) \div 4
    ELSE (Base64Value(s[q + 2]) % 4) * 64 + Base64Value(s[q + 3])

\* The quanta of base64.StdEncoding (not Strict): four characters give three
\* bytes; a final "xx==" gives one byte and a final "xxx=" two, and the bits
\* of the last character that belong to no byte are not looked at.  Padding
\* anywhere but at the end of the last quantum is an error.
DecodeQuanta(s) ==
    IF \/ Len(s) % 4 # 0
       \/ \E i \in 1..(Len(s) - PadCount(s)) : ~IsBase64Char(s[i])
    THEN DecodeFail
    ELSE [err |-> Nil,
          bytes |-> [k \in 1..((Len(s) \div 4) * 3 - PadCount(s)) |->
                        DecodeByte(s, 4 * ((k - 1) \div 3) + 1, (k - 1) % 3)]]

\* base64.StdEncoding.DecodeString
DecodeString(s) == DecodeQuanta(StripNewlines(s))

\* ------------------------------------------------------- parameter sets

\* type Argon2IdHash struct { Time, Memory uint32; Threads uint8; KeyLen, SaltLen uint32 }
Argon2IdHash(time, memory, threads, keyLen, saltLen) ==
    [Time |-> time, Memory |-> memory, Threads |-> threads,
     KeyLen |-> keyLen, SaltLen |-> saltLen]

\* &Argon2IdHash{}: the zero value decodeHash starts from.
ZeroArgon2IdHash == Argon2IdHash(0, 0, 0, 0, 0)

\* var DefaultArgon2IDHash = &Argon2IdHash{Time: 2, Memory: 19 * 1024, ...}
DefaultParams == Argon2IdHash(2, 19 * 1024, 1, 32, 32)

\* ------------------------------------------------------------ argon2

\* The derivation is modelled by two polynomial hashes of its arguments, each
\* in a prime field small enough for the products to stay in range.
Sq(x, m) == (x * x) % m

RECURSIVE PowMod(_, _, _)
PowMod(b, e, m) ==
    IF e = 0 THEN 1
    ELSE IF e % 2 = 0 THEN Sq(PowMod(b, e \div 2, m), m)
    ELSE (b * Sq(PowMod(b, e \div 2, m), m)) % m

RECURSIVE Absorb(_, _, _, _)
AbsorbHalves(xs, lo, mid, hi, m) ==
    (Absorb(xs, lo, mid, m) * PowMod(131, hi - mid, m) + Absorb(xs, mid + 1, hi, m)) % m

\* The hash of xs[lo..hi] modulo m.
Absorb(xs, lo, hi, m) ==
    IF lo > hi THEN 0
    ELSE IF lo = hi THEN (xs[lo] + 1) % m
    ELSE AbsorbHalves(xs, lo, (lo + hi) \div 2, hi, m)

\* Everything the key depends on, each slice with its length.
IDKeyInput(password, salt, time, memory, threads, keyLen) ==
    <<Len(password)>> \o password \o <<Len(salt)>> \o salt
        \o <<time, memory, threads, keyLen>>

Mix(xs, m) == Absorb(xs, 1, Len(xs), m)

\* Byte i of the key drawn from the two hashes h1 and h2.
KeyByte(h1, h2, i) ==
    (<<h1 % 256, h1 \div 256, h2 % 256, h2 \div 256>>[((i - 1) % 4) + 1]
        + 11 * ((i - 1) \div 4)) % 256

KeyBytes(h1, h2, keyLen) == [i \in 1..keyLen |-> KeyByte(h1, h2, i)]

\* argon2.IDKey(password, salt, time, memory, threads, keyLen): the library
\* panics when time < 1 or threads < 1, and on a key of no bytes; otherwise the
\* key has keyLen bytes and is a fixed function of all six arguments.
IDKey(password, salt, time, memory, threads, keyLen) ==
    IF time < 1 \/ threads < 1 \/ keyLen < 1
    THEN [panic |-> TRUE, key |-> <<>>]
    ELSE [panic |-> FALSE,
          key   |-> KeyBytes(
                        Mix(IDKeyInput(password, salt, time, memory, threads, keyLen),
                            46337),
                        Mix(IDKeyInput(password, salt, time, memory, threads, keyLen),
                            46327),
                        keyLen)]

\* A comparison that looks at the lengths only.
ConstantTimeCompare_lenOnly(x, y) == IF Len(x) = Len(y) THEN 1 ELSE 0

\* subtle.ConstantTimeCompare(x, y): 1 when the slices have equal contents,
\* 0 otherwise (and 0 at once when the lengths differ).
ConstantTimeCompare(x, y) ==
    IF Len(x) # Len(y) THEN 0
    ELSE IF \A i \in 1..Len(x) : x[i] = y[i] THEN 1 ELSE 0

\* ------------------------------------------------------ password_hash.go

\* A check that refuses only the salts that are too short.
validateSaltLength_shortOnly(salt, expectedSaltLen) ==
    IF Len(salt) > 0 /\ Len(salt) < expectedSaltLen
    THEN ErrInvalidSaltLength
    ELSE Nil

\* uint32(len(salt)) is len(salt) for every salt shorter than 2^32 bytes.
validateSaltLength(salt, expectedSaltLen) ==
    IF Len(salt) > 0 /\ Len(salt) # expectedSaltLen
    THEN ErrInvalidSaltLength
    ELSE Nil

\* What rand.Read writes into a buffer of the given length, for a state of the
\* random source named by seed.
RandFill(length, seed) == [i \in 1..length |-> (seed + 73 * i) % 256]

\* generateBytes with the error of rand.Read dropped: the buffer is returned as
\* it was made, all zero.
generateBytes_ignoreErr(length, rnd) ==
    IF rnd.ok
    THEN [bytes |-> RandFill(length, rnd.seed), err |-> Nil]
    ELSE [bytes |-> [i \in 1..length |-> 0], err |-> Nil]

\* generateBytes(length), reading the random source rnd once.
generateBytes(length, rnd) ==
    IF rnd.ok
    THEN [bytes |-> RandFill(length, rnd.seed), err |-> Nil]
    ELSE [bytes |-> <<>>, err |-> ErrRandRead]

\* The format with a.Time and a.Memory handed over in the wrong order.
encodeHashComponents_swapped(salt, hash, a) ==
    <<"$", "a", "r", "g", "o", "n", "2", "i", "d", "$", "v", "=">>
        \o FormatInt(Argon2Version)
        \o <<"$", "m", "=">> \o FormatInt(a.Time)
        \o <<",", "t", "=">> \o FormatInt(a.Memory)
        \o <<",", "p", "=">> \o FormatInt(a.Threads)
        \o <<"$">> \o EncodeToString(salt)
        \o <<"$">> \o EncodeToString(hash)

\* fmt.Sprintf("$argon2id$v=%d$m=%d,t=%d,p=%d$%s$%s", ...)
encodeHashComponents(salt, hash, a) ==
    <<"$", "a", "r", "g", "o", "n", "2", "i", "d", "$", "v", "=">>
        \o FormatInt(Argon2Version)
        \o <<"$", "m", "=">> \o FormatInt(a.Memory)
        \o <<",", "t", "=">> \o FormatInt(a.Time)
        \o <<",", "p", "=">> \o FormatInt(a.Threads)
        \o <<"$">> \o EncodeToString(salt)
        \o <<"$">> \o EncodeToString(hash)

GenResult(outcome, out, err, salt, randReads, derivCalls) ==
    [outcome |-> outcome, out |-> out, err |-> err, salt |-> salt,
     randReads |-> randReads, derivCalls |-> derivCalls]

\* GenerateHash that draws a salt whenever the supplied one passes the check.
GenerateHash_alwaysRandom(a, password, salt, rnd) ==
    IF validateSaltLength(salt, a.SaltLen) # Nil
    THEN GenResult("return", <<>>, validateSaltLength(salt, a.SaltLen), salt, 0, 0)
    ELSE LET fresh == generateBytes(a.SaltLen, rnd)
         IN  IF fresh.err # Nil
             THEN GenResult("return", <<>>, fresh.err, salt, 1, 0)
             ELSE LET k == IDKey(password, fresh.bytes, a.Time, a.Memory, a.Threads,
                                 a.KeyLen)
                  IN  IF k.panic
                      THEN GenResult("panic", <<>>, Nil, fresh.bytes, 1, 1)
                      ELSE GenResult("return",
                                     encodeHashComponents(fresh.bytes, k.key, a),
                                     Nil, fresh.bytes, 1, 1)

\* return encodeHashComponents(salt, hash, a), nil, for the outcome k of
\* argon2.IDKey
encodeKey(a, salt, reads, k) ==
    IF k.panic THEN GenResult("panic", <<>>, Nil, salt, reads, 1)
    ELSE GenResult("return", encodeHashComponents(salt, k.key, a), Nil, salt, reads, 1)

\* hash := argon2.IDKey(password, salt, a.Time, a.Memory, a.Threads, a.KeyLen)
deriveAndEncode(a, password, salt, reads) ==
    encodeKey(a, salt, reads,
              IDKey(password, salt, a.Time, a.Memory, a.Threads, a.KeyLen))

\* salt, err = generateBytes(a.SaltLen); if err != nil { return "", err }
generateWithFresh(a, password, fresh) ==
    IF fresh.err # Nil THEN GenResult("return", <<>>, fresh.err, <<>>, 1, 0)
    ELSE deriveAndEncode(a, password, fresh.bytes, 1)

\* (a *Argon2IdHash).GenerateHash(password, salt), with the random source in
\* state rnd.  randReads and derivCalls count the calls of rand.Read and of
\* argon2.IDKey the call makes.
GenerateHash(a, password, salt, rnd) ==
    IF validateSaltLength(salt, a.SaltLen) # Nil
    THEN GenResult("return", <<>>, validateSaltLength(salt, a.SaltLen), salt, 0, 0)
    ELSE IF Len(salt) = 0
         THEN generateWithFresh(a, password, generateBytes(a.SaltLen, rnd))
         ELSE deriveAndEncode(a, password, salt, 0)

DecodeError(err) ==
    [a |-> ZeroArgon2IdHash, aNil |-> TRUE, salt |-> <<>>, hash |-> <<>>, err |-> err]

\* fmt.Sscanf(value[2], "v=%d", &version)
ScanVersion(field) == ScanIntAfter(ScanLiteral(field, <<"v", "=">>), Int64MaxDigits)

ScanParamsResult(m, t, p) ==
    [ok |-> p.ok, Memory |-> m.val, Time |-> t.val, Threads |-> p.val]

ScanParamsT(m, t) ==
    ScanParamsResult(m, t, ScanUintAfter(ScanLiteralAfter(t, <<",", "p", "=">>),
                                         Uint8MaxDigits))

ScanParamsM(m) ==
    ScanParamsT(m, ScanUintAfter(ScanLiteralAfter(m, <<",", "t", "=">>),
                                 Uint32MaxDigits))

\* fmt.Sscanf(value[3], "m=%d,t=%d,p=%d", &a.Memory, &a.Time, &a.Threads)
ScanParams(field) ==
    ScanParamsM(ScanUintAfter(ScanLiteral(field, <<"m", "=">>), Uint32MaxDigits))

\* a.KeyLen = uint32(len(hash)); return a, salt, hash, nil
decodeDigest(ps, s, h) ==
    IF h.err # Nil THEN DecodeError(h.err)
    ELSE [a    |-> Argon2IdHash(ps.Time, ps.Memory, ps.Threads,
                                Len(h.bytes), Len(s.bytes)),
          aNil |-> FALSE,
          salt |-> s.bytes, hash |-> h.bytes, err |-> Nil]

\* a.SaltLen = uint32(len(salt)); hash, err = DecodeString(value[5])
decodeSalt(value, ps, s) ==
    IF s.err # Nil THEN DecodeError(s.err)
    ELSE decodeDigest(ps, s, DecodeString(value[6]))

\* salt, err = DecodeString(value[4])
decodeParams(value, ps) ==
    IF ~ps.ok THEN DecodeError(ErrScan)
    ELSE decodeSalt(value, ps, DecodeString(value[5]))

decodeFields(value) ==
    IF Len(value) # ExpectedFields THEN DecodeError(ErrInvalidEncodedHash)
    ELSE IF ~ScanVersion(value[3]).ok THEN DecodeError(ErrIncompatibleArgon2Version)
    ELSE decodeParams(value, ScanParams(value[4]))

\* decodeHash(encodedHash)
decodeHash(encodedHash) == decodeFields(Split(encodedHash, "$"))

VerResult(outcome, ok, err, derivCalls, dec) ==
    [outcome |-> outcome, ok |-> ok, err |-> err, derivCalls |-> derivCalls,
     dec |-> dec]

\* if subtle.ConstantTimeCompare(hash, otherHash) == 1 { return true, nil }
verifyKey(d, k) ==
    IF k.panic THEN VerResult("panic", FALSE, Nil, 1, d)
    ELSE VerResult("return", ConstantTimeCompare(d.hash, k.key) = 1, Nil, 1, d)

\* if err != nil { return false, err }; otherHash := argon2.IDKey(...)
verifyDecoded(password, d) ==
    IF d.err # Nil THEN VerResult("return", FALSE, d.err, 0, d)
    ELSE verifyKey(d, IDKey(password, d.salt, d.a.Time, d.a.Memory, d.a.Threads,
                            d.a.KeyLen))

\* VerifyHash(password, encodedHash)
VerifyHash(password, encodedHash) == verifyDecoded(password, decodeHash(encodedHash))

\* ------------------------------------------------- inputs of the calls

PwdBytes == {112, 119}

RECURSIVE SeqsUpTo(_, _)
SeqsUpTo(S, n) ==
    IF n = 0 THEN {<<>>}
    ELSE LET shorter == SeqsUpTo(S, n - 1)
         IN  shorter \cup {Append(q, x) : q \in {r \in shorter : Len(r) = n - 1}, x \in S}

Passwords == SeqsUpTo(PwdBytes, MaxPwdLen)

\* The salts a caller passes: none, one of each length up to MaxSaltLen, and
\* one of the default salt length.
SaltInputs ==
    {[i \in 1..n |-> (200 + 29 * i) % 256] :
        n \in (0..MaxSaltLen) \cup {DefaultParams.SaltLen}}

\* The states of the random source: it fails, or fills the buffer.
RandSource == {[ok |-> FALSE, seed |-> 0], [ok |-> TRUE, seed |-> 0],
               [ok |-> TRUE, seed |-> 181]}

NoRnd == [ok |-> FALSE, seed |-> -1]

\* The parameter sets of the sequential model: three valid ones, whose key
\* lengths give the three shapes of base64 padding, and one whose time cost
\* argon2 refuses.
ParamSets == {Argon2IdHash(1, 8, 1, 4, 1), Argon2IdHash(2, 16, 2, 5, 2),
              Argon2IdHash(3, 19 * 1024, 1, 6, 0), Argon2IdHash(0, 8, 1, 4, 1)}

RECURSIVE Join(_)
Join(fields) ==
    IF Len(fields) = 1 THEN fields[1]
    ELSE fields[1] \o <<"$">> \o Join(Tail(fields))

WithField(s, k, f) == Join([Split(s, "$") EXCEPT ![k] = f])

ReplaceAt(s, i, c) == [s EXCEPT ![i] = c]

\* The character whose six bits differ from c's in the lowest bit only.
FlipLowBit(c) ==
    LET v == Base64Value(c)
    IN  Base64Char(IF v % 2 = 0 THEN v + 1 ELSE v - 1)

\* The positions of the digest segment (the sixth field) of a record.
DigestPositions(s) == (Len(s) - Len(Split(s, "$")[6]) + 1)..Len(s)

TamperChars(c) ==
    ((IF IsBase64Char(c) THEN {FlipLowBit(c)} ELSE {}) \cup {"A", "!", "$", "="}) \ {c}

SchemeVariants == {<<"a", "r", "g", "o", "n", "2", "i">>}

VersionVariants ==
    {<<"v", "=", "1", "8">>, <<"v", "=", "x">>, <<"1", "9">>,
     <<"v", "=", "1", "9", "x">>}

ParamVariants ==
    {<<"m", "=", "8", ",", "t", "=", "0", ",", "p", "=", "1">>,
     <<"m", "=", "8", ",", "t", "=", "1", ",", "p", "=", "2", "5", "6">>,
     <<"m", "=", "x", ",", "t", "=", "1", ",", "p", "=", "1">>,
     <<"m", "=", "8", ",", "t", "=", "1">>,
     <<"m", "=", "4", "2", "9", "4", "9", "6", "7", "2", "9", "6", ",",
       "t", "=", "1", ",", "p", "=", "1">>}

SaltVariants == {<<"!", "!", "!", "!">>}

NotAValidHash ==
    <<"n", "o", "t", "-", "a", "-", "v", "a", "l", "i", "d", "-", "h", "a", "s", "h">>

How(kind, field, pos) == [kind |-> kind, field |-> field, pos |-> pos]

\* The encoded strings a caller hands to VerifyHash: a string that never was
\* a record, the stored record, the stored record with one character of its
\* digest segment replaced, with one field replaced, or with a field added.
EncodedInputs(stored) ==
    {[how |-> How("garbage", 0, 0), text |-> NotAValidHash]}
    \cup
    (IF Len(stored) = 0 THEN {}
     ELSE {[how |-> How("exact", 0, 0), text |-> stored]}
          \cup UNION {{[how |-> How("digest", 6, i), text |-> ReplaceAt(stored, i, c)] :
                           c \in TamperChars(stored[i])} : i \in DigestPositions(stored)}
          \cup {[how |-> How("field", 2, 0), text |-> WithField(stored, 2, f)] :
                    f \in SchemeVariants}
          \cup {[how |-> How("field", 3, 0), text |-> WithField(stored, 3, f)] :
                    f \in VersionVariants}
          \cup {[how |-> How("field", 4, 0), text |-> WithField(stored, 4, f)] :
                    f \in ParamVariants}
          \cup {[how |-> How("field", 5, 0), text |-> WithField(stored, 5, f)] :
                    f \in SaltVariants}
          \cup {[how |-> How("count", 0, 0), text |-> stored \o <<"$", "x">>]})

\* ------------------------------------------------------ sequential model

NoGenResult == GenResult("none", <<>>, Nil, <<>>, 0, 0)

NoPrev == [same |-> FALSE, res |-> NoGenResult]

NoGen ==
    [called |-> FALSE, a |-> ZeroArgon2IdHash, password |-> <<>>, saltIn |-> <<>>,
     rnd |-> NoRnd, res |-> NoGenResult, prev |-> NoPrev]

NoVer ==
    [called |-> FALSE, password |-> <<>>, how |-> How("none", 0, 0),
     encoded |-> <<>>, res |-> VerResult("none", FALSE, Nil, 0, DecodeError(Nil))]

\* One call a.GenerateHash(password, salt), on the package default or on a
\* parameter set of the caller.  gen records the call: its inputs, the state of
\* the random source if the call read it, its outcome, and the outcome of the
\* call before it when that call had the same three inputs.  The caller makes
\* its calls one after the other: a call starts once the result of the
\* verification before it has been consumed.
Generate ==
    \E a \in ParamSets, password \in Passwords,
       salt \in SaltInputs, rnd \in RandSource :
        LET r == GenerateHash(a, password, salt, rnd)
        IN  /\ ~ver.called
            /\ gen' = [called   |-> TRUE,
                       a        |-> a,
                       password |-> password,
                       saltIn   |-> salt,
                       rnd      |-> IF r.randReads > 0 THEN rnd ELSE NoRnd,
                       res      |-> r,
                       prev     |-> IF /\ gen.called
                                       /\ gen.a = a
                                       /\ gen.password = password
                                       /\ gen.saltIn = salt
                                    THEN [same |-> TRUE, res |-> gen.res]
                                    ELSE NoPrev]
            /\ ver' = NoVer
            /\ UNCHANGED <<DefaultArgon2IDHash, pc, loc>>

\* One call VerifyHash(password, encoded) on the record the last GenerateHash
\* call returned, as stored or as damaged in storage.
Verify ==
    \E password \in Passwords, e \in EncodedInputs(gen.res.out) :
        /\ ~ver.called
        /\ ver' = [called   |-> TRUE,
                   password |-> password,
                   how      |-> e.how,
                   encoded  |-> e.text,
                   res      |-> VerifyHash(password, e.text)]
        /\ UNCHANGED <<DefaultArgon2IDHash, gen, pc, loc>>

\* The caller consumes the result of its VerifyHash call.
Consume ==
    /\ ver.called
    /\ ver' = NoVer
    /\ UNCHANGED <<DefaultArgon2IDHash, gen, pc, loc>>

\* ------------------------------------------------------ concurrent model
\* NumProcs goroutines call GenerateHash and VerifyHash at the same time.  A
\* step of a call is one statement of its function; a statement that reads a
\* field of the parameter set reads it through the call's pointer at that step.

Procs == 1..NumProcs

ConcPassword == <<112, 119>>

\* A parameter set of a caller's own, next to the package default.
OwnParams == Argon2IdHash(1, 8, 1, 4, 1)

ConcSalts == {<<>>, <<229>>}

\* Records in storage: one made with the caller's own parameters, one with the
\* default ones.
KnownRecords ==
    {GenerateHash(OwnParams, ConcPassword, <<>>, [ok |-> TRUE, seed |-> 0]).out,
     GenerateHash(DefaultParams, <<112>>, <<>>, [ok |-> TRUE, seed |-> 181]).out}

IdleLoc ==
    [op |-> "none", ref |-> "own", own |-> ZeroArgon2IdHash, callRef |-> "own",
     password |-> <<>>, saltIn |-> <<>>, salt |-> <<>>, rnd |-> NoRnd, reads |-> 0,
     key |-> <<>>, encoded |-> <<>>, dec |-> DecodeError(Nil),
     gres |-> NoGenResult, vres |-> VerResult("none", FALSE, Nil, 0, DecodeError(Nil))]

\* The parameter set the pointer a of goroutine p points to, as it is now.
Deref(p) == IF loc[p].ref = "default" THEN DefaultArgon2IDHash ELSE loc[p].own

AllocArgon2IdHash_shared(p) == [ref |-> "default", proc |-> p]

\* a = &Argon2IdHash{} in decodeHash: a parameter set of the call's own.
AllocArgon2IdHash(p) == [ref |-> "own", proc |-> p]

Goto(p, label) == pc' = [pc EXCEPT ![p] = label]

\* go a.GenerateHash(password, salt), a the package default or the caller's own
CallGenerate(p) ==
    /\ pc[p] = "idle"
    /\ \E ref \in {"default", "own"}, salt \in ConcSalts :
           loc' = [loc EXCEPT ![p] = [IdleLoc EXCEPT !.op = "gen", !.ref = ref,
                                          !.callRef = ref, !.own = OwnParams,
                                          !.password = ConcPassword,
                                          !.saltIn = salt, !.salt = salt]]
    /\ Goto(p, "validate")
    /\ UNCHANGED <<DefaultArgon2IDHash, gen, ver>>

\* if err := validateSaltLength(salt, a.SaltLen); err != nil { return "", err }
GenValidate(p) ==
    /\ pc[p] = "validate"
    /\ LET err == validateSaltLength(loc[p].salt, Deref(p).SaltLen)
       IN  IF err # Nil
           THEN /\ loc' = [loc EXCEPT ![p].gres =
                               GenResult("return", <<>>, err, loc[p].salt, 0, 0)]
                /\ Goto(p, "done")
           ELSE /\ Goto(p, "salt")
                /\ UNCHANGED loc
    /\ UNCHANGED <<DefaultArgon2IDHash, gen, ver>>

\* if len(salt) == 0 { salt, err = generateBytes(a.SaltLen); ... }
GenSalt(p) ==
    /\ pc[p] = "salt"
    /\ IF Len(loc[p].salt) = 0
       THEN \E rnd \in RandSource :
                LET fresh == generateBytes(Deref(p).SaltLen, rnd)
                IN  IF fresh.err # Nil
                    THEN /\ loc' = [loc EXCEPT ![p].rnd = rnd, ![p].reads = 1,
                                        ![p].gres = GenResult("return", <<>>, fresh.err,
                                                              loc[p].salt, 1, 0)]
                         /\ Goto(p, "done")
                    ELSE /\ loc' = [loc EXCEPT ![p].rnd = rnd, ![p].reads = 1,
                                        ![p].salt = fresh.bytes]
                         /\ Goto(p, "derive")
       ELSE /\ Goto(p, "derive")
            /\ UNCHANGED loc
    /\ UNCHANGED <<DefaultArgon2IDHash, gen, ver>>

\* hash := argon2.IDKey(password, salt, a.Time, a.Memory, a.Threads, a.KeyLen)
GenDerive(p) ==
    /\ pc[p] = "derive"
    /\ LET k == IDKey(loc[p].password, loc[p].salt, Deref(p).Time, Deref(p).Memory,
                      Deref(p).Threads, Deref(p).KeyLen)
       IN  IF k.panic
           THEN /\ loc' = [loc EXCEPT ![p].gres =
                               GenResult("panic", <<>>, Nil, loc[p].salt, loc[p].reads, 1)]
                /\ Goto(p, "done")
           ELSE /\ loc' = [loc EXCEPT ![p].key = k.key]
                /\ Goto(p, "encode")
    /\ UNCHANGED <<DefaultArgon2IDHash, gen, ver>>

\* return encodeHashComponents(salt, hash, a), nil
GenEncode(p) ==
    /\ pc[p] = "encode"
    /\ loc' = [loc EXCEPT ![p].gres =
                   GenResult("return",
                             encodeHashComponents(loc[p].salt, loc[p].key, Deref(p)),
                             Nil, loc[p].salt, loc[p].reads, 1)]
    /\ Goto(p, "done")
    /\ UNCHANGED <<DefaultArgon2IDHash, gen, ver>>

\* go VerifyHash(password, encodedHash)
CallVerify(p) ==
    /\ pc[p] = "idle"
    /\ \E e \in KnownRecords, password \in {ConcPassword, <<112>>} :
           loc' = [loc EXCEPT ![p] = [IdleLoc EXCEPT !.op = "ver", !.password = password,
                                          !.encoded = e]]
    /\ Goto(p, "decode")
    /\ UNCHANGED <<DefaultArgon2IDHash, gen, ver>>

\* a, salt, hash, err := decodeHash(encodedHash): the fields parsed are stored
\* in the parameter set decodeHash allocates.
VerDecode(p) ==
    /\ pc[p] = "decode"
    /\ LET d == decodeHash(loc[p].encoded)
           t == AllocArgon2IdHash(p)
       IN  IF d.err # Nil
           THEN /\ loc' = [loc EXCEPT ![p].dec = d,
                               ![p].vres = VerResult("return", FALSE, d.err, 0, d)]
                /\ Goto(p, "done")
                /\ UNCHANGED DefaultArgon2IDHash
           ELSE /\ Goto(p, "vderive")
                /\ IF t.ref = "default"
                   THEN /\ DefaultArgon2IDHash' = d.a
                        /\ loc' = [loc EXCEPT ![p].dec = d, ![p].ref = "default"]
                   ELSE /\ UNCHANGED DefaultArgon2IDHash
                        /\ loc' = [loc EXCEPT ![p].dec = d, ![p].ref = "own",
                                       ![p].own = d.a]
    /\ UNCHANGED <<gen, ver>>

\* otherHash := argon2.IDKey(...); return ConstantTimeCompare(hash, otherHash) == 1
VerDerive(p) ==
    /\ pc[p] = "vderive"
    /\ LET k == IDKey(loc[p].password, loc[p].dec.salt, Deref(p).Time, Deref(p).Memory,
                      Deref(p).Threads, Deref(p).KeyLen)
       IN  loc' = [loc EXCEPT ![p].vres =
                       IF k.panic THEN VerResult("panic", FALSE, Nil, 1, loc[p].dec)
                       ELSE VerResult("return",
                                      ConstantTimeCompare(loc[p].dec.hash, k.key) = 1,
                                      Nil, 1, loc[p].dec)]
    /\ Goto(p, "done")
    /\ UNCHANGED <<DefaultArgon2IDHash, gen, ver>>

\* The call has returned; the goroutine is free for the next call.
Return(p) ==
    /\ pc[p] = "done"
    /\ loc' = [loc EXCEPT ![p] = IdleLoc]
    /\ Goto(p, "idle")
    /\ UNCHANGED <<DefaultArgon2IDHash, gen, ver>>

Init ==
    /\ DefaultArgon2IDHash = DefaultParams
    /\ gen = NoGen
    /\ ver = NoVer
    /\ pc = [p \in Procs |-> "idle"]
    /\ loc = [p \in Procs |-> IdleLoc]

Next == Generate \/ Verify \/ Consume

Spec == Init /\ [][Next]_vars

NextConc ==
    \E p \in Procs :
        \/ CallGenerate(p)
        \/ GenValidate(p)
        \/ GenSalt(p)
        \/ GenDerive(p)
        \/ GenEncode(p)
        \/ CallVerify(p)
        \/ VerDecode(p)
        \/ VerDerive(p)
        \/ Return(p)

SpecConc == Init /\ [][NextConc]_vars

\* ---------------------------------------------------------------- claims

SchemeTag == <<"a", "r", "g", "o", "n", "2", "i", "d">>

Fields(s) == Split(s, "$")

\* A valid parameter set: at least one pass and one lane, at least 8 KiB of
\* memory per lane, a key of at least 4 bytes.
ValidParams(a) ==
    a.Time >= 1 /\ a.Threads >= 1 /\ a.Memory >= 8 * a.Threads /\ a.KeyLen >= 4

\* The last GenerateHash call returned an encoded hash.
Generated == gen.called /\ gen.res.outcome = "return" /\ gen.res.err = Nil

\* The last VerifyHash call was given the record of the last GenerateHash
\* call, unchanged.
VerifiedStored == ver.called /\ ver.how.kind = "exact"

Returned(ok, err) ==
    ver.res.outcome = "return" /\ ver.res.ok = ok /\ ver.res.err = err

\* C1 (round trip): VerifyHash of the right password on the string GenerateHash
\* made with a generated salt and valid parameters returns (true, nil), and the
\* five parameters it derived with are those GenerateHash used.
C1_RoundTrip ==
    (VerifiedStored /\ ver.password = gen.password /\ gen.saltIn = <<>>
        /\ ValidParams(gen.a))
    => /\ Returned(TRUE, Nil)
       /\ ~ver.res.dec.aNil
       /\ ver.res.dec.a = gen.a
       /\ ver.res.derivCalls = 1

C1_Witness ==
    /\ VerifiedStored /\ ver.password = gen.password /\ gen.saltIn = <<>>
    /\ ValidParams(gen.a) /\ gen.a.SaltLen > 0
    /\ ver.res.ok

\* A record is malformed when it has not six fields, or its scheme tag is not
\* argon2id, or its version or cost fields do not parse or are out of range, or
\* its salt or digest is not base64.
MalformedRecord(s) ==
    \/ Len(Fields(s)) # ExpectedFields
    \/ Fields(s)[2] # SchemeTag
    \/ ~ScanVersion(Fields(s)[3]).ok
    \/ ScanVersion(Fields(s)[3]).val # Argon2Version
    \/ ~ScanParams(Fields(s)[4]).ok
    \/ ScanParams(Fields(s)[4]).Time < 1
    \/ ScanParams(Fields(s)[4]).Threads < 1
    \/ DecodeString(Fields(s)[5]).err # Nil
    \/ DecodeString(Fields(s)[6]).err # Nil

\* C2 (malformed-record safety): VerifyHash of a malformed record returns
\* normally, with false and an error that is not nil.
C2_MalformedRejected ==
    (ver.called /\ MalformedRecord(ver.encoded))
    => /\ ver.res.outcome = "return"
       /\ ~ver.res.ok
       /\ ver.res.err # Nil

\* C3 (rejection): VerifyHash of another password on the string GenerateHash
\* made with a generated salt and valid parameters returns (false, nil).
C3_Rejection ==
    (VerifiedStored /\ ver.password # gen.password /\ gen.saltIn = <<>>
        /\ ValidParams(gen.a))
    => Returned(FALSE, Nil)

C3_Witness ==
    /\ VerifiedStored /\ ver.password # gen.password /\ gen.saltIn = <<>>
    /\ ValidParams(gen.a)
    /\ Returned(FALSE, Nil) /\ ver.res.derivCalls = 1

\* C4 (tamper detection): with one character of the digest segment replaced by
\* another, VerifyHash of the right password returns (false, nil).
C4_TamperRejected ==
    (ver.called /\ ver.how.kind = "digest" /\ ver.password = gen.password)
    => Returned(FALSE, Nil)

C6_FormatRoundTrip ==
    Generated
    => /\ decodeHash(gen.res.out).err = Nil
       /\ encodeHashComponents(decodeHash(gen.res.out).salt,
                               decodeHash(gen.res.out).hash,
                               decodeHash(gen.res.out).a) = gen.res.out
       /\ Len(Fields(gen.res.out)) = ExpectedFields
       /\ Fields(gen.res.out)[1] = <<>>
       /\ Fields(gen.res.out)[2] = SchemeTag
       /\ Fields(gen.res.out)[3] = <<"v", "=">> \o FormatInt(Argon2Version)
       /\ ScanParams(Fields(gen.res.out)[4]) =
              [ok |-> TRUE, Memory |-> gen.a.Memory, Time |-> gen.a.Time,
               Threads |-> gen.a.Threads]
       /\ DecodeString(Fields(gen.res.out)[5]) = [err |-> Nil, bytes |-> gen.res.salt]
       /\ DecodeString(Fields(gen.res.out)[6]).err = Nil
       /\ Len(DecodeString(Fields(gen.res.out)[6]).bytes) = gen.a.KeyLen

C6_Witness ==
    /\ Generated /\ gen.a.KeyLen % 3 # 0 /\ gen.a.SaltLen % 3 # 0
    /\ encodeHashComponents(decodeHash(gen.res.out).salt,
                            decodeHash(gen.res.out).hash,
                            decodeHash(gen.res.out).a) = gen.res.out

\* The last GenerateHash call was given a salt of the configured length.
FixedSalt == Len(gen.saltIn) > 0 /\ Len(gen.saltIn) = gen.a.SaltLen

\* C8 (determinism with fixed salt): a GenerateHash call with the password,
\* salt and parameter set of the call before it, the salt of the configured
\* length, returns what that call returned, and neither read the random source.
C8_Deterministic ==
    (gen.called /\ gen.prev.same /\ FixedSalt)
    => /\ gen.res.outcome = gen.prev.res.outcome
       /\ gen.res.out = gen.prev.res.out
       /\ gen.res.err = gen.prev.res.err
       /\ gen.res.randReads = 0
       /\ gen.prev.res.randReads = 0

C8_Witness ==
    /\ gen.called /\ gen.prev.same /\ FixedSalt
    /\ gen.res.err = Nil /\ Len(gen.res.out) > 0
    /\ gen.res.out = gen.prev.res.out

\* C9 (salt generation): GenerateHash without a salt reads the random source
\* once; the salt in the string it returns has SaltLen bytes; when the read
\* fails it returns "" and the read's error, and argon2.IDKey is not called.
C9_SaltGeneration ==
    (gen.called /\ gen.saltIn = <<>>)
    => /\ gen.res.randReads = 1
       /\ (gen.rnd.ok /\ gen.res.outcome = "return")
              => /\ gen.res.err = Nil
                 /\ Len(DecodeString(Fields(gen.res.out)[5]).bytes) = gen.a.SaltLen
       /\ ~gen.rnd.ok
              => /\ gen.res.outcome = "return"
                 /\ gen.res.out = <<>>
                 /\ gen.res.err = ErrRandRead
                 /\ gen.res.derivCalls = 0

C9_Witness ==
    /\ gen.called /\ gen.saltIn = <<>> /\ gen.a.SaltLen > 0
    /\ gen.rnd.ok /\ gen.res.outcome = "return"
    /\ Len(DecodeString(Fields(gen.res.out)[5]).bytes) = gen.a.SaltLen

\* C10 (version handling): for a string of six fields whose version field does
\* not parse, or names another version than Argon2Version, VerifyHash returns
\* (false, ErrIncompatibleArgon2Version) with no derivation and no parameter
\* set; a cost-parameter field that does not parse gives another error.
C10_VersionRejected ==
    (ver.called /\ Len(Fields(ver.encoded)) = ExpectedFields)
    => /\ (\/ ~ScanVersion(Fields(ver.encoded)[3]).ok
           \/ ScanVersion(Fields(ver.encoded)[3]).val # Argon2Version)
              => /\ Returned(FALSE, ErrIncompatibleArgon2Version)
                 /\ ver.res.derivCalls = 0
                 /\ ver.res.dec.aNil
       /\ (/\ ScanVersion(Fields(ver.encoded)[3]).ok
           /\ ScanVersion(Fields(ver.encoded)[3]).val = Argon2Version
           /\ ~ScanParams(Fields(ver.encoded)[4]).ok)
              => /\ ver.res.err # Nil
                 /\ ver.res.err # ErrIncompatibleArgon2Version

\* What a call that has returned would have returned had it run alone, on the
\* parameter set as it was when the program started.
Alone(p) ==
    IF loc[p].op = "gen"
    THEN GenerateHash(IF loc[p].callRef = "default" THEN DefaultParams ELSE OwnParams,
                      loc[p].password, loc[p].saltIn, loc[p].rnd)
    ELSE VerifyHash(loc[p].password, loc[p].encoded)

\* C7 (concurrency safety): whatever the interleaving, the package default is
\* never changed, and a call that has returned has the result it has alone.
C7_Isolation ==
    /\ DefaultArgon2IDHash = DefaultParams
    /\ \A p \in Procs :
           pc[p] = "done"
           => IF loc[p].op = "gen" THEN loc[p].gres = Alone(p)
              ELSE loc[p].vres = Alone(p)

C7_Witness ==
    \E p \in Procs, q \in Procs :
        /\ pc[p] = "done" /\ loc[p].op = "gen" /\ loc[p].callRef = "default"
        /\ loc[p].gres.err = Nil /\ Len(loc[p].gres.out) > 0
        /\ pc[q] = "done" /\ loc[q].op = "ver" /\ loc[q].vres.ok

====
